---- MODULE Spec2Model ----
(***************************************************************************)
(* State-machine model of the XRP WPILib-WebSocket firmware core:          *)
(*   src/src/wpilibws.cpp  message dispatch and message encoders           *)
(*   src/src/main.cpp      WebSocket event handler, outbound queue, loop() *)
(* robot.h / watchdog.h / imu.h are not part of the source tree; the few   *)
(* driver operations the two files call are modelled from the written      *)
(* specification and are marked "spec-modelled" below.                     *)
(* The print-only diagnostics of main.cpp (_wsMessageCount, _avgLoopTimeUs,*)
(* checkPrintStatus) and the HTTP configuration server are not modelled.   *)
(***************************************************************************)
EXTENDS Integers, Sequences, FiniteSets, TLC

VARIABLES
  robotEnabled,           \* robot.h: the process-wide "robot enabled" flag
  pwmValues,              \* robot.h: value last applied to each PWM output
  encoders,               \* robot.h: configured encoders (Device Registry)
  wdAge,                  \* watchdog.h: time since _dsWatchdog was last fed
  clients,                \* wsServer: the slots holding a connected client
  handled,                \* wsServer: slots served in the current wsServer.loop()
  lastCheckedNumClients,  \* main.cpp:254
  outboundMessages,       \* main.cpp:36
  nextSeq,                \* number of messages enqueued so far (message identity)
  broadcasts,             \* payloads handed to wsServer.broadcastTXT, in order
  staleAtDisconnect,      \* payloads that were queued when the last client went
  driverCalls,            \* driver calls made by the last handler that ran
  crashed,                \* the firmware aborted (undefined behaviour took the fault)
  encoderReport,          \* wpilibws.cpp:96: one report, its text, and its reading
  step                    \* the last handler that ran, and its input

vars == <<robotEnabled, pwmValues, encoders, wdAge, clients, handled,
          lastCheckedNumClients, outboundMessages, nextSeq, broadcasts,
          staleAtDisconnect, driverCalls, crashed, encoderReport, step>>

(***************************************************************************)
(* Bounds of the model.                                                    *)
(***************************************************************************)
MaxClients == 1       \* client slots of the WebSocket server that are used
MaxSeq == 2           \* messages the sampler enqueues in one behaviour
MaxPwmChannel == 4    \* PWM outputs 0..MaxPwmChannel are tracked
MaxFrames == 2        \* frames one call of wsServer.loop() delivers (one a client)

\* The heartbeat timeout, in steps of the model's clock (watchdog.h): one
\* step is longer than the timeout.
WatchdogTimeout == 0

Scale == 10 * 10 * 10   \* decimals are held in thousandths

ClientSlots == 1..MaxClients
PwmChannels == 0..MaxPwmChannel

(***************************************************************************)
(* JSON values as the decoded document holds them (ArduinoJson variant).   *)
(* A string is a sequence of one-character strings; a number is an integer *)
(* (channels) or a decimal in thousandths (speed, position).               *)
(***************************************************************************)
Absent == [kind |-> "absent", s |-> <<>>, n |-> 0, b |-> FALSE]
JStr(cs) == [kind |-> "str", s |-> cs, n |-> 0, b |-> FALSE]
JNum(k) == [kind |-> "num", s |-> <<>>, n |-> k, b |-> FALSE]
JBool(v) == [kind |-> "bool", s |-> <<>>, n |-> 0, b |-> v]

DigitChars == <<"0", "1", "2", "3", "4", "5", "6", "7", "8", "9">>
IsDigit(ch) == \E d \in 1..10 : DigitChars[d] = ch
DigitVal(ch) == (CHOOSE d \in 1..10 : DigitChars[d] = ch) - 1

\* JsonObject::containsKey
containsKey(obj, key) == obj[key].kind # "absent"

\* JsonVariant::as<bool>(), also the implicit conversion to bool
AsBool(v) ==
  CASE v.kind = "bool" -> v.b
    [] v.kind = "num" -> v.n # 0
    [] v.kind = "str" -> TRUE
    [] OTHER -> FALSE

\* JsonVariant::as<int>(), also the implicit conversion to int
AsInt(v) == IF v.kind = "num" THEN v.n ELSE 0

RECURSIVE NatToChars(_)
NatToChars(k) ==
  IF k < 10 THEN <<DigitChars[k + 1]>>
  ELSE NatToChars(k \div 10) \o <<DigitChars[(k % 10) + 1]>>

RECURSIVE TrimZeros(_)
TrimZeros(cs) ==
  IF cs # <<>> /\ cs[Len(cs)] = "0" THEN TrimZeros(SubSeq(cs, 1, Len(cs) - 1))
  ELSE cs

\* serializeJson of a number holding k thousandths
SerializeNumber(k) ==
  LET mag == IF k < 0 THEN 0 - k ELSE k
      ip == mag \div Scale
      fp == mag % Scale
      frac == TrimZeros(<<DigitChars[(fp \div 100) + 1],
                          DigitChars[((fp \div 10) % 10) + 1],
                          DigitChars[(fp % 10) + 1]>>)
  IN (IF k < 0 THEN <<"-">> ELSE <<>>)
       \o NatToChars(ip)
       \o (IF frac = <<>> THEN <<>> ELSE <<".">> \o frac)

\* JsonVariant::as<std::string>(): the string itself, else the value's JSON text
AsStdString(v) ==
  CASE v.kind = "str" -> v.s
    [] v.kind = "num" -> SerializeNumber(v.n)
    [] v.kind = "bool" -> IF v.b THEN <<"t", "r", "u", "e">>
                                 ELSE <<"f", "a", "l", "s", "e">>
    [] OTHER -> <<"n", "u", "l", "l">>

(***************************************************************************)
(* The C library's atoi and atof.                                           *)
(***************************************************************************)
RECURSIVE SkipSpace(_)
SkipSpace(cs) ==
  IF cs # <<>> /\ Head(cs) = " " THEN SkipSpace(Tail(cs)) ELSE cs

RECURSIVE DigitsValue(_, _)
DigitsValue(cs, acc) ==
  IF cs # <<>> /\ IsDigit(Head(cs))
  THEN DigitsValue(Tail(cs), (acc * 10) + DigitVal(Head(cs)))
  ELSE acc

RECURSIVE DropDigits(_)
DropDigits(cs) ==
  IF cs # <<>> /\ IsDigit(Head(cs)) THEN DropDigits(Tail(cs)) ELSE cs

RECURSIVE FractionValue(_, _)
FractionValue(cs, place) ==
  IF cs # <<>> /\ IsDigit(Head(cs)) /\ place > 0
  THEN (DigitVal(Head(cs)) * place) + FractionValue(Tail(cs), place \div 10)
  ELSE 0

Negative(cs) == cs # <<>> /\ Head(cs) = "-"
DropSign(cs) == IF cs # <<>> /\ Head(cs) \in {"-", "+"} THEN Tail(cs) ELSE cs

atoi(cs) ==
  LET t == SkipSpace(cs)
      mag == DigitsValue(DropSign(t), 0)
  IN IF Negative(t) THEN 0 - mag ELSE mag

\* the result in thousandths; digits past the third decimal are not held
atof(cs) ==
  LET t == SkipSpace(cs)
      u == DropSign(t)
      rest == DropDigits(u)
      fp == IF rest # <<>> /\ Head(rest) = "."
            THEN FractionValue(Tail(rest), Scale \div 10) ELSE 0
      mag == (DigitsValue(u, 0) * Scale) + fp
  IN IF Negative(t) THEN 0 - mag ELSE mag

(***************************************************************************)
(* The program state the handlers read and write, as a record; each handler *)
(* starts with an empty log of driver calls.                                *)
(***************************************************************************)
Sys ==
  [robotEnabled |-> robotEnabled, pwmValues |-> pwmValues, encoders |-> encoders,
   wdAge |-> wdAge, lastCheckedNumClients |-> lastCheckedNumClients,
   outboundMessages |-> outboundMessages, nextSeq |-> nextSeq,
   broadcasts |-> broadcasts,
   driverCalls |-> <<>>, crashed |-> crashed]

NeutralPwm == [ch \in PwmChannels |-> 0]

DriverCall(fn, x, y, z) == [fn |-> fn, x |-> x, y |-> y, z |-> z]

(***************************************************************************)
(* Driver operations of robot.h and watchdog.h (spec-modelled).            *)
(***************************************************************************)
\* Watchdog::satisfied: fed within the timeout
WatchdogSatisfied(age) == age <= WatchdogTimeout

\* Watchdog::feed
WatchdogFeed(c) == [c EXCEPT !.wdAge = 0]

\* xrp::setPwmValue: the driver call is made; its effect is suppressed while
\* the robot is disabled
setPwmValue(c, channel, value) ==
  LET called == [c EXCEPT !.driverCalls =
                   Append(@, DriverCall("setPwmValue", channel, value, 0))]
  IN IF c.robotEnabled /\ channel \in PwmChannels
     THEN [called EXCEPT !.pwmValues[channel] = value]
     ELSE called

\* xrp::robotSetEnabled: DISABLED -> ENABLED only with the heartbeat satisfied;
\* a transition into DISABLED forces every output to neutral
robotSetEnabled(c, enabled) ==
  IF enabled
  THEN IF WatchdogSatisfied(c.wdAge) THEN [c EXCEPT !.robotEnabled = TRUE] ELSE c
  ELSE [c EXCEPT !.robotEnabled = FALSE, !.pwmValues = NeutralPwm]

\* xrp::setEnabled: the requested-enabled transition of the Safety Supervisor
setEnabled(c, enabled) == robotSetEnabled(c, enabled)

\* xrp::configureEncoder: create or overwrite the registry entry of the device
configureEncoder(c, deviceNum, chA, chB) ==
  [c EXCEPT
     !.encoders = {e \in @ : e.device # deviceNum}
                    \cup {[device |-> deviceNum, chA |-> chA, chB |-> chB]},
     !.driverCalls = Append(@, DriverCall("configureEncoder", deviceNum, chA, chB))]

(***************************************************************************)
(* wpilibws.cpp                                                            *)
(* A decoded message is [hasType, type, device, hasData, data]; data holds *)
(* the six inbound fields "<speed", "<position", ">enabled", "<init",      *)
(* "<channel_a", "<channel_b" under the names speed .. channel_b.          *)
(* atoi(NULL) is undefined behaviour: ub is the outcome the build gives it, *)
(* a fault (ub.crash) or some integer (ub.value).                          *)
(***************************************************************************)
\* mutant: the heartbeat is reported as always satisfied
dsWatchdogActive_AlwaysTrue(c) == TRUE

\* wpilibws.cpp:91
dsWatchdogActive(c) == WatchdogSatisfied(c.wdAge)

Abort(c) == [c EXCEPT !.crashed = TRUE]

\* JsonVariant::as<const char*>() is NULL unless the value is a string
IsNullCString(v) == v.kind # "str"

\* atoi(msg["device"].as<const char*>())
DeviceNumber(v, ub) == IF IsNullCString(v) THEN ub.value ELSE atoi(v.s)

\* mutant: the flag is written without the supervisor's transition
handleDSMessage_FlagOnly(c, dsMsg) ==
  LET fed == WatchdogFeed(c)
      data == dsMsg.data
  IN IF containsKey(data, "enabled")
     THEN [fed EXCEPT !.robotEnabled = AsBool(data.enabled)]
     ELSE fed

\* mutant: the presence of ">enabled" is taken for the request to enable
handleDSMessage_IgnoresValue(c, dsMsg) ==
  LET fed == WatchdogFeed(c)
      data == dsMsg.data
  IN IF containsKey(data, "enabled")
     THEN setEnabled(fed, containsKey(data, "enabled"))
     ELSE fed

\* mutant: the watchdog is fed by a message that carries the field only
handleDSMessage_FeedsWithField(c, dsMsg) ==
  LET data == dsMsg.data
  IN IF containsKey(data, "enabled")
     THEN setEnabled(WatchdogFeed(c), AsBool(data.enabled))
     ELSE c

\* wpilibws.cpp:13
handleDSMessage(c, dsMsg) ==
  LET fed == WatchdogFeed(c)
      data == dsMsg.data
  IN IF containsKey(data, "enabled")
     THEN setEnabled(fed, AsBool(data.enabled))
     ELSE fed

\* mutant: one channel is enough to configure
handleEncoderMessage_Partial(c, encMsg, ub) ==
  IF IsNullCString(encMsg.device) /\ ub.crash THEN Abort(c)
  ELSE
    LET deviceNum == DeviceNumber(encMsg.device, ub)
        data == encMsg.data
    IN IF containsKey(data, "init")
       THEN LET initVal == AsBool(data.init)
                chA == IF containsKey(data, "channel_a")
                       THEN AsInt(data.channel_a) ELSE -1
                chB == IF containsKey(data, "channel_b")
                       THEN AsInt(data.channel_b) ELSE -1
            IN IF initVal /\ (chA # -1 \/ chB # -1)
               THEN configureEncoder(c, deviceNum, chA, chB)
               ELSE c
       ELSE c

\* wpilibws.cpp:22
handleEncoderMessage(c, encMsg, ub) ==
  IF IsNullCString(encMsg.device) /\ ub.crash THEN Abort(c)
  ELSE
    LET deviceNum == DeviceNumber(encMsg.device, ub)
        data == encMsg.data
    IN IF containsKey(data, "init")
       THEN LET initVal == AsBool(data.init)
                chA == IF containsKey(data, "channel_a")
                       THEN AsInt(data.channel_a) ELSE -1
                chB == IF containsKey(data, "channel_b")
                       THEN AsInt(data.channel_b) ELSE -1
            IN IF initVal /\ chA # -1 /\ chB # -1
               THEN configureEncoder(c, deviceNum, chA, chB)
               ELSE c
       ELSE c

\* mutant: the speed range starts at channel 1
handlePWMMessage_SkipsChannelZero(c, pwmMsg, ub) ==
  IF IsNullCString(pwmMsg.device) /\ ub.crash THEN Abort(c)
  ELSE
    LET channel == DeviceNumber(pwmMsg.device, ub)
        data == pwmMsg.data
    IN IF containsKey(data, "speed")
       THEN LET value == atof(AsStdString(data.speed))
            IN IF channel > 0 /\ channel <= 3
               THEN setPwmValue(c, channel, value)
               ELSE c
       ELSE IF containsKey(data, "position")
       THEN LET value == (2 * atof(AsStdString(data.position))) - Scale
            IN IF channel > 3
               THEN setPwmValue(c, channel, value)
               ELSE c
       ELSE c

\* mutant: the position is handed on without the remap to [-1,1]
handlePWMMessage_NoRemap(c, pwmMsg, ub) ==
  IF IsNullCString(pwmMsg.device) /\ ub.crash THEN Abort(c)
  ELSE
    LET channel == DeviceNumber(pwmMsg.device, ub)
        data == pwmMsg.data
    IN IF containsKey(data, "speed")
       THEN LET value == atof(AsStdString(data.speed))
            IN IF channel >= 0 /\ channel <= 3
               THEN setPwmValue(c, channel, value)
               ELSE c
       ELSE IF containsKey(data, "position")
       THEN LET value == atof(AsStdString(data.position))
            IN IF channel > 3
               THEN setPwmValue(c, channel, value)
               ELSE c
       ELSE c

\* mutant: the position is applied to any channel
handlePWMMessage_PositionAnyChannel(c, pwmMsg, ub) ==
  IF IsNullCString(pwmMsg.device) /\ ub.crash THEN Abort(c)
  ELSE
    LET channel == DeviceNumber(pwmMsg.device, ub)
        data == pwmMsg.data
    IN IF containsKey(data, "speed")
       THEN LET value == atof(AsStdString(data.speed))
            IN IF channel >= 0 /\ channel <= 3
               THEN setPwmValue(c, channel, value)
               ELSE c
       ELSE IF containsKey(data, "position")
       THEN LET value == (2 * atof(AsStdString(data.position))) - Scale
            IN IF TRUE
               THEN setPwmValue(c, channel, value)
               ELSE c
       ELSE c

\* mutant: a speed that does not fit the channel makes way for the position
handlePWMMessage_FallsThrough(c, pwmMsg, ub) ==
  IF IsNullCString(pwmMsg.device) /\ ub.crash THEN Abort(c)
  ELSE
    LET channel == DeviceNumber(pwmMsg.device, ub)
        data == pwmMsg.data
    IN IF containsKey(data, "speed") /\ channel >= 0 /\ channel <= 3
       THEN setPwmValue(c, channel, atof(AsStdString(data.speed)))
       ELSE IF containsKey(data, "position") /\ channel > 3
       THEN setPwmValue(c, channel, (2 * atof(AsStdString(data.position))) - Scale)
       ELSE c

\* wpilibws.cpp:48
handlePWMMessage(c, pwmMsg, ub) ==
  IF IsNullCString(pwmMsg.device) /\ ub.crash THEN Abort(c)
  ELSE
    LET channel == DeviceNumber(pwmMsg.device, ub)
        data == pwmMsg.data
    IN IF containsKey(data, "speed")
       THEN LET value == atof(AsStdString(data.speed))
            IN IF channel >= 0 /\ channel <= 3
               THEN setPwmValue(c, channel, value)
               ELSE c
       ELSE IF containsKey(data, "position")
       THEN LET value == (2 * atof(AsStdString(data.position))) - Scale
            IN IF channel > 3
               THEN setPwmValue(c, channel, value)
               ELSE c
       ELSE c

\* mutant: the validity check asks for the type only
processWSMessage_TypeOnly(c, jsonMsg, ub) ==
  IF jsonMsg.hasType
  THEN CASE jsonMsg.type = "PWM" -> handlePWMMessage(c, jsonMsg, ub)
         [] jsonMsg.type = "DriverStation" -> handleDSMessage(c, jsonMsg)
         [] jsonMsg.type = "Encoder" -> handleEncoderMessage(c, jsonMsg, ub)
         [] jsonMsg.type = "DIO" -> c
         [] jsonMsg.type = "Gyro" -> c
         [] OTHER -> c
  ELSE c

\* mutant: a Gyro message counts as a sign of life
processWSMessage_GyroFeeds(c, jsonMsg, ub) ==
  IF jsonMsg.hasType /\ jsonMsg.hasData
  THEN CASE jsonMsg.type = "PWM" -> handlePWMMessage(c, jsonMsg, ub)
         [] jsonMsg.type = "DriverStation" -> handleDSMessage(c, jsonMsg)
         [] jsonMsg.type = "Encoder" -> handleEncoderMessage(c, jsonMsg, ub)
         [] jsonMsg.type = "DIO" -> c
         [] jsonMsg.type = "Gyro" -> WatchdogFeed(c)
         [] OTHER -> c
  ELSE c

\* wpilibws.cpp:70
processWSMessage(c, jsonMsg, ub) ==
  IF jsonMsg.hasType /\ jsonMsg.hasData
  THEN CASE jsonMsg.type = "PWM" -> handlePWMMessage(c, jsonMsg, ub)
         [] jsonMsg.type = "DriverStation" -> handleDSMessage(c, jsonMsg)
         [] jsonMsg.type = "Encoder" -> handleEncoderMessage(c, jsonMsg, ub)
         [] jsonMsg.type = "DIO" -> c
         [] jsonMsg.type = "Gyro" -> c
         [] OTHER -> c
  ELSE c

\* std::to_string(int)
IntToString(k) == IF k < 0 THEN <<"-">> \o NatToChars(0 - k) ELSE NatToChars(k)

(***************************************************************************)
(* Outbound JSON: the document a report is built in, its text as           *)
(* serializeJson writes it, and the document a client reads back from the  *)
(* text.  An object holds its members in the order they were added.        *)
(***************************************************************************)
JsonNull == [kind |-> "null", s |-> <<>>, n |-> 0, b |-> FALSE, members |-> <<>>]
JsonString(cs) == [JsonNull EXCEPT !.kind = "string", !.s = cs]
JsonInteger(k) == [JsonNull EXCEPT !.kind = "integer", !.n = k]
JsonBoolean(v) == [JsonNull EXCEPT !.kind = "boolean", !.b = v]
JsonObject(ms) == [JsonNull EXCEPT !.kind = "object", !.members = ms]
JsonMember(key, value) == [key |-> key, value |-> value]

Quote == "\""
TrueChars == <<"t", "r", "u", "e">>
FalseChars == <<"f", "a", "l", "s", "e">>

RECURSIVE serializeJson(_)
RECURSIVE SerializeMembers(_)
SerializeMembers(ms) ==
  IF ms = <<>> THEN <<>>
  ELSE <<Quote>> \o Head(ms).key \o <<Quote, ":">> \o serializeJson(Head(ms).value)
         \o (IF Len(ms) > 1 THEN <<",">> ELSE <<>>) \o SerializeMembers(Tail(ms))

\* serializeJson: the minified text (the strings held need no escaping)
serializeJson(v) ==
  CASE v.kind = "string" -> <<Quote>> \o v.s \o <<Quote>>
    [] v.kind = "integer" -> IntToString(v.n)
    [] v.kind = "boolean" -> IF v.b THEN TrueChars ELSE FalseChars
    [] v.kind = "object" -> <<"{">> \o SerializeMembers(v.members) \o <<"}">>
    [] OTHER -> <<"n", "u", "l", "l">>

\* the reader of a client: a value starting at cs[i], and where it ends
CharAt(cs, i) == IF i \in 1..Len(cs) THEN cs[i] ELSE ""
ParseFailed == [ok |-> FALSE, value |-> JsonNull, next |-> 0]
Parsed(v, next) == [ok |-> TRUE, value |-> v, next |-> next]

\* the first index from i on that holds a quote, or a character that is no
\* digit; Len(cs) + 1 if there is none
RECURSIVE QuoteAt(_, _)
QuoteAt(cs, i) ==
  IF i > Len(cs) \/ cs[i] = Quote THEN i ELSE QuoteAt(cs, i + 1)

RECURSIVE DigitsEnd(_, _)
DigitsEnd(cs, i) ==
  IF i > Len(cs) \/ ~IsDigit(cs[i]) THEN i ELSE DigitsEnd(cs, i + 1)

ParseString(cs, i) ==
  LET close == QuoteAt(cs, i + 1)
  IN IF CharAt(cs, i) = Quote /\ close <= Len(cs)
     THEN Parsed(JsonString(SubSeq(cs, i + 1, close - 1)), close + 1)
     ELSE ParseFailed

ParseInteger(cs, i) ==
  LET first == IF CharAt(cs, i) = "-" THEN i + 1 ELSE i
      end == DigitsEnd(cs, first)
      mag == DigitsValue(SubSeq(cs, first, end - 1), 0)
  IN IF end > first
     THEN Parsed(JsonInteger(IF first > i THEN 0 - mag ELSE mag), end)
     ELSE ParseFailed

ParseLiteral(cs, i, word, v) ==
  IF i + Len(word) - 1 <= Len(cs) /\ SubSeq(cs, i, i + Len(word) - 1) = word
  THEN Parsed(v, i + Len(word))
  ELSE ParseFailed

RECURSIVE ParseValue(_, _)
RECURSIVE ParseMembers(_, _, _)
ParseMembers(cs, i, acc) ==
  LET key == ParseString(cs, i)
      val == IF key.ok /\ CharAt(cs, key.next) = ":"
             THEN ParseValue(cs, key.next + 1) ELSE ParseFailed
      ms == Append(acc, JsonMember(key.value.s, val.value))
  IN CASE ~val.ok -> ParseFailed
       [] CharAt(cs, val.next) = "," -> ParseMembers(cs, val.next + 1, ms)
       [] CharAt(cs, val.next) = "}" -> Parsed(JsonObject(ms), val.next + 1)
       [] OTHER -> ParseFailed

ParseValue(cs, i) ==
  CASE CharAt(cs, i) = Quote -> ParseString(cs, i)
    [] CharAt(cs, i) = "{" ->
         IF CharAt(cs, i + 1) = "}" THEN Parsed(JsonObject(<<>>), i + 2)
         ELSE ParseMembers(cs, i + 1, <<>>)
    [] CharAt(cs, i) = "t" -> ParseLiteral(cs, i, TrueChars, JsonBoolean(TRUE))
    [] CharAt(cs, i) = "f" -> ParseLiteral(cs, i, FalseChars, JsonBoolean(FALSE))
    [] OTHER -> ParseInteger(cs, i)

\* deserializeJson at the receiving end: the whole text is one value
deserializeJson(cs) ==
  LET r == ParseValue(cs, 1)
  IN IF r.ok /\ r.next = Len(cs) + 1
     THEN [ok |-> TRUE, value |-> r.value]
     ELSE [ok |-> FALSE, value |-> JsonNull]

TypeKey == <<"t", "y", "p", "e">>
DeviceKey == <<"d", "e", "v", "i", "c", "e">>
DataKey == <<"d", "a", "t", "a">>
CountKey == <<">", "c", "o", "u", "n", "t">>
EncoderChars == <<"E", "n", "c", "o", "d", "e", "r">>

\* no report is being followed
NoReport ==
  [deviceId |-> 0, count |-> 0, ret |-> <<>>,
   read |-> [ok |-> FALSE, value |-> JsonNull], at |-> "none"]

\* mutant: the device is stored as the number it is
makeEncoderMessage_NumericDevice(deviceId, count) ==
  serializeJson(JsonObject(<<
    JsonMember(TypeKey, JsonString(EncoderChars)),
    JsonMember(DeviceKey, JsonInteger(deviceId)),
    JsonMember(DataKey, JsonObject(<<JsonMember(CountKey, JsonInteger(count))>>))>>))

\* wpilibws.cpp:96
makeEncoderMessage(deviceId, count) ==
  serializeJson(JsonObject(<<
    JsonMember(TypeKey, JsonString(EncoderChars)),
    JsonMember(DeviceKey, JsonString(IntToString(deviceId))),
    JsonMember(DataKey, JsonObject(<<JsonMember(CountKey, JsonInteger(count))>>))>>))

(***************************************************************************)
(* Driver operations the control loop calls (spec-modelled).               *)
(***************************************************************************)
\* xrp::robotPeriodic: the periodic evaluation of the heartbeat; the change
\* bitmask it returns is an input of loop
robotPeriodic(c) ==
  LET polled == [c EXCEPT !.driverCalls =
                   Append(@, DriverCall("robotPeriodic", 0, 0, 0))]
  IN IF dsWatchdogActive(polled) THEN polled ELSE robotSetEnabled(polled, FALSE)

RECURSIVE SortedDevices(_)
SortedDevices(ds) ==
  IF ds = {} THEN <<>>
  ELSE LET lo == CHOOSE d \in ds : \A e \in ds : d <= e
       IN <<lo>> \o SortedDevices(ds \ {lo})

\* xrp::getActiveEncoderValues: (device, count) of every configured encoder
getActiveEncoderValues(c, counts) ==
  LET ds == SortedDevices({e.device : e \in c.encoders})
  IN [k \in 1..Len(ds) |-> <<ds[k], counts[ds[k]]>>]

\* the fixed stretches of the texts of the DIO and gyro reports
DIOUpToDevice ==
  <<"{", Quote, "t", "y", "p", "e", Quote, ":", Quote, "D", "I", "O", Quote, ",",
    Quote, "d", "e", "v", "i", "c", "e", Quote, ":", Quote>>
DIOUpToValue ==
  <<Quote, ",", Quote, "d", "a", "t", "a", Quote, ":", "{",
    Quote, "<", ">", "v", "a", "l", "u", "e", Quote, ":">>
GyroUpToRate ==
  <<"{", Quote, "t", "y", "p", "e", Quote, ":", Quote, "G", "y", "r", "o", Quote, ",",
    Quote, "d", "e", "v", "i", "c", "e", Quote, ":", Quote, "Z", Quote, ",",
    Quote, "d", "a", "t", "a", Quote, ":", "{",
    Quote, ">", "r", "a", "t", "e", Quote, ":">>
ObjectsEnd == <<"}", "}">>

\* wpilibws::makeDIOMessage: the text of the report of a digital input
makeDIOMessage(deviceId, value) ==
  DIOUpToDevice \o IntToString(deviceId) \o DIOUpToValue
    \o (IF value THEN TrueChars ELSE FalseChars) \o ObjectsEnd

\* wpilibws::makeGyroSingleMessage(AXIS_Z, rate, angle): the text of the
\* report of the gyro
makeGyroSingleMessage(rate) == GyroUpToRate \o IntToString(rate) \o ObjectsEnd

(***************************************************************************)
(* main.cpp                                                                *)
(***************************************************************************)
\* main.cpp:125
sendMessage(m, msg) ==
  [m EXCEPT !.outboundMessages = Append(@, [seq |-> m.nextSeq + 1, msg |-> msg]),
            !.nextSeq = @ + 1]

\* mutant: the queue is not cleared after the broadcast
checkAndSendMessages_NoClear(m) ==
  [m EXCEPT !.broadcasts = @ \o m.outboundMessages]

\* main.cpp:129
checkAndSendMessages(m) ==
  [m EXCEPT !.broadcasts = @ \o m.outboundMessages,
            !.outboundMessages = <<>>]

Range(q) == {q[k] : k \in 1..Len(q)}

\* mutant: the queue is left as it is when the last client has gone
DisableOnDisconnect_NoClear(m, numConnectedClients) ==
  IF m.lastCheckedNumClients > 0 /\ numConnectedClients = 0
  THEN robotSetEnabled(m, FALSE)
  ELSE m

\* main.cpp:264-270: disable the robot when the last client has gone
\* (xrp::imuSetEnabled(false) acts on the IMU driver alone)
DisableOnDisconnect(m, numConnectedClients) ==
  IF m.lastCheckedNumClients > 0 /\ numConnectedClients = 0
  THEN [robotSetEnabled(m, FALSE) EXCEPT !.outboundMessages = <<>>]
  ELSE m

RECURSIVE SendEncoderMessages(_, _)
SendEncoderMessages(m, encValues) ==
  IF encValues = <<>> THEN m
  ELSE SendEncoderMessages(
         sendMessage(m, makeEncoderMessage(Head(encValues)[1], Head(encValues)[2])),
         Tail(encValues))

\* mutant: the queue is flushed after the sampling
SampleAndSend_FlushLast(m, hw) ==
  LET polled == robotPeriodic(m)
      withEnc == IF "ENCODER" \in hw.updatedData
                 THEN SendEncoderMessages(polled,
                        getActiveEncoderValues(polled, hw.counts))
                 ELSE polled
      withDio == IF "DIO" \in hw.updatedData
                 THEN sendMessage(withEnc, makeDIOMessage(0, hw.pressed))
                 ELSE withEnc
  IN checkAndSendMessages(IF hw.imuDataReady
                          THEN sendMessage(withDio, makeGyroSingleMessage(0))
                          ELSE withDio)

\* main.cpp:273-299; hw holds what the hardware reports in this iteration
SampleAndSend(m, hw) ==
  LET sent == checkAndSendMessages(m)
      polled == robotPeriodic(sent)
      withEnc == IF "ENCODER" \in hw.updatedData
                 THEN SendEncoderMessages(polled,
                        getActiveEncoderValues(polled, hw.counts))
                 ELSE polled
      withDio == IF "DIO" \in hw.updatedData
                 THEN sendMessage(withEnc, makeDIOMessage(0, hw.pressed))
                 ELSE withEnc
  IN IF hw.imuDataReady
     THEN sendMessage(withDio, makeGyroSingleMessage(0))
     ELSE withDio

\* mutant: the sampling does not ask for a client
loopBody_AlwaysSamples(m, numConnectedClients, hw) ==
  LET checked == [DisableOnDisconnect(m, numConnectedClients) EXCEPT
                    !.lastCheckedNumClients = numConnectedClients]
  IN SampleAndSend(checked, hw)

\* main.cpp:255: loop() after wsServer.loop() has delivered its events
\* (webServer.handleClient, xrp::imuPeriodic and the loop-time statistics
\* touch none of the state held here)
loopBody(m, numConnectedClients, hw) ==
  LET checked == [DisableOnDisconnect(m, numConnectedClients) EXCEPT
                    !.lastCheckedNumClients = numConnectedClients]
  IN IF numConnectedClients > 0 THEN SampleAndSend(checked, hw) ELSE checked

\* mutant: the error of deserializeJson is not looked at
handleWSEvent_IgnoresError(m, type, payload, ub) ==
  CASE type = "WStype_TEXT" -> processWSMessage(m, payload.doc, ub)
    [] OTHER -> m

\* main.cpp:137: payload is [ok, doc]: whether deserializeJson accepts it,
\* and the document it yields
handleWSEvent(m, type, payload, ub) ==
  CASE type = "WStype_TEXT" ->
         IF payload.ok THEN processWSMessage(m, payload.doc, ub) ELSE m
    [] OTHER -> m

(***************************************************************************)
(* Inbound messages.                                                       *)
(***************************************************************************)
\* decimal and integer texts with the number each one denotes
IntegerTexts ==
  { [text |-> <<"0">>, value |-> 0], [text |-> <<"3">>, value |-> 3],
    [text |-> <<"4">>, value |-> 4], [text |-> <<"-", "1">>, value |-> -1] }
DecimalTexts ==
  { [text |-> <<"0", ".", "5">>, value |-> 500],
    [text |-> <<"-", "1">>, value |-> -1000],
    [text |-> <<"0", ".", "2", "5">>, value |-> 250],
    [text |-> <<"1", ".", "0">>, value |-> 1000] }

NoData ==
  [speed |-> Absent, position |-> Absent, enabled |-> Absent,
   init |-> Absent, channel_a |-> Absent, channel_b |-> Absent]

Message(hasType, type, device, hasData, data) ==
  [hasType |-> hasType, type |-> type, device |-> device,
   hasData |-> hasData, data |-> data]

NoMessage == Message(FALSE, "", Absent, FALSE, NoData)

TypeNames == {"PWM", "DriverStation", "Encoder", "DIO", "Gyro", "Accel"}
DeviceValues ==
  {Absent, JNum(3), JStr(<<"a", "b", "c">>)} \cup {JStr(t.text) : t \in IntegerTexts}
SpeedValues == {Absent, JStr(<<"0", ".", "5">>), JNum(-1000)}
PositionValues == {Absent, JStr(<<"0", ".", "2", "5">>), JNum(1000)}
FlagValues == {Absent, JBool(TRUE), JBool(FALSE)}
DataValues ==
  [speed : SpeedValues, position : PositionValues, enabled : FlagValues,
   init : FlagValues, channel_a : {Absent, JNum(2), JNum(-1)},
   channel_b : {Absent, JNum(3)}]

\* every message of the vocabulary, well-formed or not
AllMessages ==
  {Message(TRUE, ty, dv, TRUE, da) : ty \in TypeNames, dv \in DeviceValues, da \in DataValues}
  \cup {Message(TRUE, ty, dv, FALSE, NoData) : ty \in TypeNames, dv \in DeviceValues}
  \cup {Message(FALSE, "", dv, TRUE, da) : dv \in DeviceValues, da \in DataValues}

\* the outcomes of atoi(NULL)
UBOutcomes ==
  {[crash |-> TRUE, value |-> 0]} \cup {[crash |-> FALSE, value |-> v] : v \in {0, 4}}

(***************************************************************************)
(* The state machine.                                                      *)
(***************************************************************************)
Apply(r) ==
  /\ robotEnabled' = r.robotEnabled
  /\ pwmValues' = r.pwmValues
  /\ encoders' = r.encoders
  /\ wdAge' = r.wdAge
  /\ lastCheckedNumClients' = r.lastCheckedNumClients
  /\ outboundMessages' = r.outboundMessages
  /\ nextSeq' = r.nextSeq
  /\ broadcasts' = r.broadcasts
  /\ driverCalls' = r.driverCalls
  /\ crashed' = r.crashed
  /\ encoderReport' = encoderReport

\* what the last handler was and the state it started from; afterDrop: the
\* handler before it dropped an undecodable payload
Ran(kind, msg) ==
  [kind |-> kind, msg |-> msg, wasEnabled |-> robotEnabled,
   wasActive |-> WatchdogSatisfied(wdAge), wasEncoders |-> encoders,
   hadClients |-> lastCheckedNumClients > 0, wasSeq |-> nextSeq,
   afterDrop |-> kind = "text" /\ step.kind = "undecodable"]

\* after setup(): disabled, outputs neutral, nothing configured, the watchdog
\* never fed, no client
Init ==
  /\ robotEnabled = FALSE
  /\ pwmValues = NeutralPwm
  /\ encoders = {}
  /\ wdAge = WatchdogTimeout + 1
  /\ clients = {}
  /\ handled = {}
  /\ lastCheckedNumClients = 0
  /\ outboundMessages = <<>>
  /\ nextSeq = 0
  /\ broadcasts = <<>>
  /\ staleAtDisconnect = {}
  /\ driverCalls = <<>>
  /\ crashed = FALSE
  /\ encoderReport = NoReport
  /\ step = [kind |-> "boot", msg |-> NoMessage, wasEnabled |-> FALSE,
             wasActive |-> FALSE, wasEncoders |-> {}, hadClients |-> FALSE,
             wasSeq |-> 0, afterDrop |-> FALSE]

\* the outcomes that matter to the dispatch of doc
OutcomesFor(doc) ==
  IF IsNullCString(doc.device) THEN UBOutcomes ELSE {[crash |-> FALSE, value |-> 0]}

\* wsServer.loop() serves each client slot once per call: a new connection,
\* one received frame, or the loss of the connection.
WSConnected(i) ==
  /\ ~crashed
  /\ i \notin clients /\ i \notin handled
  /\ clients' = clients \cup {i}
  /\ handled' = handled \cup {i}
  /\ Apply(handleWSEvent(Sys, "WStype_CONNECTED", [ok |-> FALSE, doc |-> NoMessage],
                         [crash |-> FALSE, value |-> 0]))
  /\ UNCHANGED staleAtDisconnect
  /\ step' = Ran("connected", NoMessage)

WSDisconnected(i) ==
  /\ ~crashed
  /\ i \in clients /\ i \notin handled
  /\ clients' = clients \ {i}
  /\ handled' = handled \cup {i}
  /\ Apply(handleWSEvent(Sys, "WStype_DISCONNECTED", [ok |-> FALSE, doc |-> NoMessage],
                         [crash |-> FALSE, value |-> 0]))
  /\ UNCHANGED staleAtDisconnect
  /\ step' = Ran("disconnected", NoMessage)

WSText(i, payload) ==
  /\ ~crashed
  /\ i \in clients /\ i \notin handled
  /\ handled' = handled \cup {i}
  /\ UNCHANGED <<clients, staleAtDisconnect>>
  /\ \E ub \in OutcomesFor(payload.doc) :
       Apply(handleWSEvent(Sys, "WStype_TEXT", payload, ub))
  /\ step' = Ran(IF payload.ok THEN "text" ELSE "undecodable", payload.doc)

\* millis() advances; past the timeout the watchdog stays expired
TimePasses ==
  /\ ~crashed
  /\ wdAge <= WatchdogTimeout
  /\ wdAge' = wdAge + 1
  /\ step' = Ran("time", NoMessage)
  /\ UNCHANGED <<robotEnabled, pwmValues, encoders, clients, handled,
                 lastCheckedNumClients, outboundMessages, nextSeq, broadcasts,
                 staleAtDisconnect, driverCalls, crashed, encoderReport>>

EncoderCounts == {128}
ButtonStates == {TRUE}

\* what the hardware may report to one iteration; nothing is polled without
\* a client
HardwareReports ==
  IF clients = {}
  THEN {[updatedData |-> {}, counts |-> <<>>, pressed |-> FALSE, imuDataReady |-> FALSE]}
  ELSE [updatedData : SUBSET {"ENCODER", "DIO"},
        counts : [{e.device : e \in encoders} -> EncoderCounts],
        pressed : ButtonStates, imuDataReady : BOOLEAN]

Loop ==
  /\ ~crashed
  /\ \E hw \in HardwareReports :
       LET r == loopBody(Sys, Cardinality(clients), hw)
       IN r.nextSeq <= MaxSeq /\ Apply(r)
  /\ staleAtDisconnect' =
       IF lastCheckedNumClients > 0 /\ clients = {}
       THEN staleAtDisconnect \cup Range(outboundMessages)
       ELSE staleAtDisconnect
  /\ handled' = {}
  /\ UNCHANGED clients
  /\ step' = Ran("loop", NoMessage)

\* the messages the clients of the full state machine send
LoopData(field, v) == [NoData EXCEPT ![field] = v]
LoopMessages ==
  { Message(TRUE, "DriverStation", Absent, TRUE, LoopData("enabled", JBool(TRUE))),
    Message(TRUE, "DriverStation", Absent, TRUE, LoopData("enabled", JBool(FALSE))),
    Message(TRUE, "DriverStation", Absent, TRUE, NoData),
    Message(TRUE, "PWM", JStr(<<"0">>), TRUE, LoopData("speed", JStr(<<"0", ".", "5">>))),
    Message(TRUE, "Encoder", JStr(<<"0">>), TRUE,
            [NoData EXCEPT !.init = JBool(TRUE), !.channel_a = JNum(2), !.channel_b = JNum(3)]) }

LoopPayloads == {[ok |-> TRUE, doc |-> m] : m \in LoopMessages}

\* an undecodable payload leaves the document empty or, when the text breaks
\* off late, holding what was read of it
InboundPayloads ==
  LoopPayloads
  \cup {[ok |-> FALSE, doc |-> NoMessage],
        [ok |-> FALSE,
         doc |-> Message(TRUE, "DriverStation", Absent, TRUE, LoopData("enabled", JBool(TRUE)))]}

Next ==
  \/ \E i \in ClientSlots : WSConnected(i)
  \/ \E i \in ClientSlots : WSDisconnected(i)
  \/ \E i \in ClientSlots : \E payload \in LoopPayloads : WSText(i, payload)
  \/ TimePasses
  \/ Loop

Spec == Init /\ [][Next]_vars

(***************************************************************************)
(* Dispatch of one message of the whole vocabulary, and of the same        *)
(* message once more, from the states a client can find the robot in.      *)
(***************************************************************************)
DispatchInit ==
  /\ robotEnabled \in BOOLEAN
  /\ pwmValues \in {NeutralPwm} \cup
                   (IF robotEnabled THEN {[NeutralPwm EXCEPT ![0] = 500]} ELSE {})
  /\ encoders \in {{}, {[device |-> 0, chA |-> 4, chB |-> 5]}}
  /\ wdAge \in {0, WatchdogTimeout + 1}
  /\ clients = {1}
  /\ handled = {}
  /\ lastCheckedNumClients = 1
  /\ outboundMessages = <<>>
  /\ nextSeq = 0
  /\ broadcasts = <<>>
  /\ staleAtDisconnect = {}
  /\ driverCalls = <<>>
  /\ crashed = FALSE
  /\ encoderReport = NoReport
  /\ step = [kind |-> "given", msg |-> NoMessage, wasEnabled |-> robotEnabled,
             wasActive |-> WatchdogSatisfied(wdAge), wasEncoders |-> encoders,
             hadClients |-> TRUE, wasSeq |-> 0, afterDrop |-> FALSE]

DispatchFirst ==
  /\ step.kind = "given"
  /\ \E doc \in AllMessages : \E ub \in OutcomesFor(doc) :
       /\ Apply(handleWSEvent(Sys, "WStype_TEXT", [ok |-> TRUE, doc |-> doc], ub))
       /\ step' = Ran("text", doc)
  /\ UNCHANGED <<clients, handled, staleAtDisconnect>>

DispatchAgain ==
  /\ step.kind = "text"
  /\ ~crashed
  /\ \E ub \in OutcomesFor(step.msg) :
       Apply(handleWSEvent(Sys, "WStype_TEXT", [ok |-> TRUE, doc |-> step.msg], ub))
  /\ step' = Ran("text2", step.msg)
  /\ UNCHANGED <<clients, handled, staleAtDisconnect>>

DispatchNext == DispatchFirst \/ DispatchAgain

SpecDispatch == DispatchInit /\ [][DispatchNext]_vars

(***************************************************************************)
(* One call of wsServer.loop() with MaxFrames clients connected, each of   *)
(* which has sent one payload.                                             *)
(***************************************************************************)
InboundInit ==
  /\ robotEnabled \in BOOLEAN
  /\ pwmValues = NeutralPwm
  /\ encoders = {}
  /\ wdAge \in {0, WatchdogTimeout + 1}
  /\ clients = 1..MaxFrames
  /\ handled = {}
  /\ lastCheckedNumClients = MaxFrames
  /\ outboundMessages = <<>>
  /\ nextSeq = 0
  /\ broadcasts = <<>>
  /\ staleAtDisconnect = {}
  /\ driverCalls = <<>>
  /\ crashed = FALSE
  /\ encoderReport = NoReport
  /\ step = [kind |-> "given", msg |-> NoMessage, wasEnabled |-> robotEnabled,
             wasActive |-> WatchdogSatisfied(wdAge), wasEncoders |-> encoders,
             hadClients |-> TRUE, wasSeq |-> 0, afterDrop |-> FALSE]

InboundNext == \E i \in 1..MaxFrames : \E payload \in InboundPayloads : WSText(i, payload)

SpecInbound == InboundInit /\ [][InboundNext]_vars

(***************************************************************************)
(* One Encoder report: makeEncoderMessage builds its text, and a client    *)
(* reads the text back.                                                    *)
(***************************************************************************)
ReportDevices == (0 - 2)..12
ReportCounts == {0 - 1280, 0 - 1, 0, 7, 128, 4096}

CodecInit ==
  /\ robotEnabled = FALSE
  /\ pwmValues = NeutralPwm
  /\ encoders = {}
  /\ wdAge = WatchdogTimeout + 1
  /\ clients = {1}
  /\ handled = {}
  /\ lastCheckedNumClients = 1
  /\ outboundMessages = <<>>
  /\ nextSeq = 0
  /\ broadcasts = <<>>
  /\ staleAtDisconnect = {}
  /\ driverCalls = <<>>
  /\ crashed = FALSE
  /\ \E d \in ReportDevices : \E n \in ReportCounts :
        encoderReport = [NoReport EXCEPT !.deviceId = d, !.count = n, !.at = "given"]
  /\ step = [kind |-> "given", msg |-> NoMessage, wasEnabled |-> FALSE,
             wasActive |-> FALSE, wasEncoders |-> {}, hadClients |-> TRUE,
             wasSeq |-> 0, afterDrop |-> FALSE]

MakeReport ==
  /\ encoderReport.at = "given"
  /\ encoderReport' =
       [encoderReport EXCEPT
          !.ret = makeEncoderMessage(encoderReport.deviceId, encoderReport.count),
          !.at = "made"]
  /\ UNCHANGED <<robotEnabled, pwmValues, encoders, wdAge, clients, handled,
                 lastCheckedNumClients, outboundMessages, nextSeq, broadcasts,
                 staleAtDisconnect, driverCalls, crashed, step>>

ClientReads ==
  /\ encoderReport.at = "made"
  /\ encoderReport' =
       [encoderReport EXCEPT !.read = deserializeJson(encoderReport.ret),
                             !.at = "read"]
  /\ UNCHANGED <<robotEnabled, pwmValues, encoders, wdAge, clients, handled,
                 lastCheckedNumClients, outboundMessages, nextSeq, broadcasts,
                 staleAtDisconnect, driverCalls, crashed, step>>

CodecNext == MakeReport \/ ClientReads

SpecCodec == CodecInit /\ [][CodecNext]_vars

(***************************************************************************)
(* Properties.                                                             *)
(***************************************************************************)
LoopRan == step.kind = "loop"
TextRan == step.kind \in {"text", "text2"}
Typed(m, ty) == m.hasType /\ m.hasData /\ m.type = ty

C2_DisconnectDisablesAndClears ==
  /\ (LoopRan /\ step.hadClients /\ clients = {})
       => (~robotEnabled /\ outboundMessages = <<>>)
  /\ staleAtDisconnect \cap Range(broadcasts) = {}

\* the last client went while the robot was enabled, the heartbeat satisfied
\* and payloads queued
C2_Witness ==
  /\ LoopRan /\ step.hadClients /\ clients = {}
  /\ step.wasEnabled /\ step.wasActive
  /\ staleAtDisconnect # {}

\* C3: while the robot is disabled every PWM output is neutral.
C3_DisabledMeansNeutral == ~robotEnabled => pwmValues = NeutralPwm

\* a PWM command reached the driver while the robot was disabled
C3_Witness ==
  /\ step.kind = "text" /\ Typed(step.msg, "PWM")
  /\ ~step.wasEnabled /\ ~robotEnabled
  /\ driverCalls # <<>>

\* C4: the robot starts disabled, and it is enabled only by the dispatch of a
\* DriverStation message with ">enabled" true, with the heartbeat satisfied.
C4_OnlyDriverStationEnables ==
  /\ step.kind = "boot" => ~robotEnabled
  /\ (robotEnabled /\ ~step.wasEnabled) =>
       /\ step.kind = "text"
       /\ Typed(step.msg, "DriverStation")
       /\ step.msg.data.enabled = JBool(TRUE)
       /\ WatchdogSatisfied(wdAge)

\* a DriverStation message enabled the robot, the heartbeat having lapsed before
C4_Witness ==
  robotEnabled /\ ~step.wasEnabled /\ ~step.wasActive /\ step.kind = "text"

(***************************************************************************)
(* Properties of the dispatch of one message.  The texts of IntegerTexts    *)
(* and DecimalTexts carry the number each one denotes.                     *)
(***************************************************************************)
IsIntegerText(v) == v.kind = "str" /\ \E t \in IntegerTexts : t.text = v.s
IntegerValue(v) == (CHOOSE t \in IntegerTexts : t.text = v.s).value
IsDecimal(v) ==
  v.kind = "num" \/ (v.kind = "str" /\ \E t \in DecimalTexts : t.text = v.s)
DecimalValue(v) ==
  IF v.kind = "num" THEN v.n ELSE (CHOOSE t \in DecimalTexts : t.text = v.s).value

ProgramStateUnchanged ==
  UNCHANGED <<robotEnabled, pwmValues, encoders, wdAge, lastCheckedNumClients,
              outboundMessages, nextSeq, broadcasts, crashed>>

\* a PWM message with a speed s in [-1,1] for a channel in 0..3
ValidSpeedMessage(m) ==
  /\ Typed(m, "PWM")
  /\ IsIntegerText(m.device) /\ IntegerValue(m.device) \in 0..3
  /\ IsDecimal(m.data.speed) /\ DecimalValue(m.data.speed) \in (0 - Scale)..Scale

\* C5: such a message makes exactly one driver call, setPwmValue(c, s).
C5_SpeedReachesDriverUnmodified ==
  (TextRan /\ ValidSpeedMessage(step.msg)) =>
     driverCalls = <<DriverCall("setPwmValue", IntegerValue(step.msg.device),
                                DecimalValue(step.msg.data.speed), 0)>>

\* a speed sent as a JSON number to channel 3 of an enabled robot was applied
C5_Witness ==
  /\ step.kind = "text" /\ ValidSpeedMessage(step.msg)
  /\ step.msg.data.speed.kind = "num" /\ IntegerValue(step.msg.device) = 3
  /\ robotEnabled /\ pwmValues[3] = DecimalValue(step.msg.data.speed)

\* a PWM message with a position p in [0,1], no speed, for a channel above 3
ValidPositionMessage(m) ==
  /\ Typed(m, "PWM")
  /\ IsIntegerText(m.device) /\ IntegerValue(m.device) > 3
  /\ m.data.speed = Absent
  /\ IsDecimal(m.data.position) /\ DecimalValue(m.data.position) \in 0..Scale

\* C6: such a message makes exactly one driver call, setPwmValue(c, 2p - 1),
\* with a value in [-1,1].
C6_PositionIsRemapped ==
  (TextRan /\ ValidPositionMessage(step.msg)) =>
     /\ driverCalls = <<DriverCall("setPwmValue", IntegerValue(step.msg.device),
                                   (2 * DecimalValue(step.msg.data.position)) - Scale, 0)>>
     /\ driverCalls[1].y \in (0 - Scale)..Scale

\* position 0.25 was handed to the driver as -0.5
C6_Witness ==
  /\ step.kind = "text" /\ ValidPositionMessage(step.msg)
  /\ DecimalValue(step.msg.data.position) = 250
  /\ driverCalls # <<>> /\ driverCalls[1].y = -500

\* a PWM message whose only field of the two does not fit the channel
MismatchedMessage(m) ==
  /\ Typed(m, "PWM")
  /\ IsIntegerText(m.device)
  /\ \/ /\ m.data.speed = Absent /\ m.data.position # Absent
        /\ IntegerValue(m.device) <= 3
     \/ /\ m.data.speed # Absent /\ m.data.position = Absent
        /\ (IntegerValue(m.device) > 3 \/ IntegerValue(m.device) < 0)

\* C7: the dispatch of such a message makes no driver call and changes nothing.
C7_MismatchIsNoOp ==
  [][(step'.kind \in {"text", "text2"} /\ MismatchedMessage(step'.msg))
       => (driverCalls' = <<>> /\ ProgramStateUnchanged)]_vars

\* a speed for channel 4 was dispatched to an enabled robot
C7_Witness ==
  /\ step.kind = "text" /\ MismatchedMessage(step.msg)
  /\ step.msg.data.speed # Absent /\ IntegerValue(step.msg.device) = 4
  /\ robotEnabled

\* an Encoder message with init true and both channels present
CompleteConfiguration(m) ==
  /\ m.data.init = JBool(TRUE)
  /\ m.data.channel_a # Absent /\ m.data.channel_b # Absent

\* C8: an Encoder message changes the registry only if it is a complete
\* configuration; a complete configuration (a, b) for device d leaves (a, b)
\* as the one entry of d and the other entries as they were; the same message
\* dispatched a second time changes nothing.
C8_EncoderConfigAtomicIdempotent ==
  (TextRan /\ Typed(step.msg, "Encoder") /\ step.msg.device.kind = "str") =>
     LET m == step.msg
         d == atoi(m.device.s)
         a == m.data.channel_a.n
         b == m.data.channel_b.n
     IN /\ encoders # step.wasEncoders => CompleteConfiguration(m)
        /\ (CompleteConfiguration(m) /\ IsIntegerText(m.device) /\ a >= 0 /\ b >= 0) =>
              /\ d = IntegerValue(m.device)
              /\ {e \in encoders : e.device = d} =
                    {[device |-> d, chA |-> a, chB |-> b]}
              /\ {e \in encoders : e.device # d} =
                    {e \in step.wasEncoders : e.device # d}
        /\ step.kind = "text2" => encoders = step.wasEncoders

\* the complete configuration (2, 3) of device 0 was dispatched twice
C8_Witness ==
  /\ step.kind = "text2" /\ Typed(step.msg, "Encoder")
  /\ CompleteConfiguration(step.msg)
  /\ encoders = {[device |-> 0, chA |-> 2, chB |-> 3]}

\* C9: the dispatch of a message without "type" or without "data" feeds no
\* heartbeat, leaves the enabled flag and the registry alone and calls no driver.
C9_InvalidMessageDropped ==
  [][(step'.kind \in {"text", "text2"} /\ ~(step'.msg.hasType /\ step'.msg.hasData))
       => (driverCalls' = <<>> /\ ProgramStateUnchanged)]_vars

\* a DriverStation message without "data" left the expired heartbeat expired
C9_Witness ==
  /\ step.kind = "text"
  /\ step.msg.hasType /\ step.msg.type = "DriverStation" /\ ~step.msg.hasData
  /\ ~step.wasActive /\ ~WatchdogSatisfied(wdAge)

\* C10: a PWM or Encoder message whose "device" is missing or is no number
\* makes no driver call and does not abort the firmware.
C10_MalformedDeviceIsNoOp ==
  (/\ TextRan
   /\ Typed(step.msg, "PWM") \/ Typed(step.msg, "Encoder")
   /\ step.msg.device.kind \in {"absent", "str"}
   /\ ~IsIntegerText(step.msg.device))
    => (driverCalls = <<>> /\ ~crashed)

\* C11: an undecodable payload changes nothing and aborts nothing, and the
\* payload another client has sent is dispatched after it in the same call of
\* wsServer.loop(), from the unchanged state, with the effect of its dispatch.
C11_UndecodableIsDropped ==
  [][/\ step'.kind = "undecodable" =>
          (driverCalls' = <<>> /\ ProgramStateUnchanged)
     /\ (step'.kind = "text" /\ step'.afterDrop) =>
          \E ub \in OutcomesFor(step'.msg) :
             Apply(processWSMessage(Sys, step'.msg, ub))]_vars

\* right after an undecodable payload that held an enable request, the
\* DriverStation message of another client enabled the robot
C11_Witness ==
  /\ step.kind = "text" /\ step.afterDrop
  /\ Typed(step.msg, "DriverStation")
  /\ ~step.wasEnabled /\ robotEnabled

\* C12: a flush broadcasts the queue as it stands, in enqueue order, and what
\* is left in the queue afterwards was enqueued after the flush; over the whole
\* run the broadcasts are in enqueue order, none twice, and nothing still
\* queued has been broadcast.
InEnqueueOrder(q) == \A j, k \in 1..Len(q) : j < k => q[j].seq < q[k].seq

C12_FlushIsFifoOnce ==
  [][/\ InEnqueueOrder(broadcasts' \o outboundMessages')
     /\ (step'.kind = "loop" /\ clients # {}) =>
          /\ broadcasts' = broadcasts \o outboundMessages
          /\ \A p \in Range(outboundMessages') : p.seq > nextSeq]_vars

\* two messages enqueued by one iteration were broadcast by a later one, in
\* that order, while the queue already holds nothing
C12_Witness ==
  /\ LoopRan
  /\ Len(broadcasts) = 2
  /\ broadcasts[1].seq = 1 /\ broadcasts[2].seq = 2
  /\ broadcasts[1].msg # broadcasts[2].msg
  /\ outboundMessages = <<>>

\* the member of object v under key; JsonNull if there is none
MemberOf(v, key) ==
  IF \E k \in 1..Len(v.members) : v.members[k].key = key
  THEN v.members[CHOOSE k \in 1..Len(v.members) : v.members[k].key = key].value
  ELSE JsonNull

\* cs is the decimal notation of k: a minus sign if k is negative, then the
\* digits with no leading zero
IsDecimalOf(cs, k) ==
  LET digits == IF cs # <<>> /\ Head(cs) = "-" THEN Tail(cs) ELSE cs
  IN /\ digits # <<>>
     /\ \A j \in 1..Len(digits) : IsDigit(digits[j])
     /\ Len(digits) > 1 => digits[1] # "0"
     /\ (Len(digits) < Len(cs)) <=> (k < 0)
     /\ DigitsValue(digits, 0) = (IF k < 0 THEN 0 - k ELSE k)

\* C13: the text makeEncoderMessage(d, n) returns reads back as an object of
\* exactly three members: type "Encoder", device the decimal string of d, and
\* data, an object whose only member is ">count" with the integer n.
C13_EncoderReportRoundTrip ==
  encoderReport.at = "read" =>
    LET doc == encoderReport.read.value
        data == MemberOf(doc, DataKey)
    IN /\ encoderReport.read.ok
       /\ doc.kind = "object" /\ Len(doc.members) = 3
       /\ MemberOf(doc, TypeKey) = JsonString(EncoderChars)
       /\ MemberOf(doc, DeviceKey).kind = "string"
       /\ IsDecimalOf(MemberOf(doc, DeviceKey).s, encoderReport.deviceId)
       /\ data.kind = "object" /\ Len(data.members) = 1
       /\ MemberOf(data, CountKey) = JsonInteger(encoderReport.count)

\* device 4 with count 128 was read back
C13_Witness ==
  /\ encoderReport.at = "read"
  /\ encoderReport.deviceId = 4 /\ encoderReport.count = 128
  /\ encoderReport.read.ok
  /\ MemberOf(encoderReport.read.value, DeviceKey) = JsonString(<<"4">>)

\* C14: whenever a handler has taken the robot from enabled to disabled (a
\* DriverStation message, the heartbeat, or the last client going), the queue
\* holds nothing that was enqueued before that handler ran.
C14_EveryDisableClearsQueue ==
  (step.wasEnabled /\ ~robotEnabled) =>
    \A p \in Range(outboundMessages) : p.seq > step.wasSeq

\* C15: after the dispatch of a DriverStation message that has the type and
\* data keys the heartbeat is freshly fed, whatever the data holds, and a
\* message without the enabled field leaves the enabled flag as it was.
C15_DriverStationAlwaysFeeds ==
  (TextRan /\ Typed(step.msg, "DriverStation")) =>
    /\ wdAge = 0
    /\ dsWatchdogActive(Sys)
    /\ ~containsKey(step.msg.data, "enabled") => (robotEnabled = step.wasEnabled)

\* a DriverStation message with no enabled field fed the expired heartbeat of
\* an enabled robot and left it enabled
C15_Witness ==
  /\ step.kind = "text" /\ Typed(step.msg, "DriverStation")
  /\ ~containsKey(step.msg.data, "enabled")
  /\ ~step.wasActive /\ wdAge = 0
  /\ step.wasEnabled /\ robotEnabled

\* C16: a PWM message makes at most one driver call; when it carries both a
\* speed and a position, the only call it can make is the one of the speed, to
\* a channel in 0..3, so for a channel above 3 it makes none.
C16_OnePwmFieldConsulted ==
  (TextRan /\ Typed(step.msg, "PWM")) =>
    /\ Len(driverCalls) <= 1
    /\ (step.msg.data.speed # Absent /\ step.msg.data.position # Absent) =>
         /\ \A k \in 1..Len(driverCalls) :
               /\ driverCalls[k].fn = "setPwmValue"
               /\ driverCalls[k].x \in 0..3
               /\ driverCalls[k].y = DecimalValue(step.msg.data.speed)
         /\ (IsIntegerText(step.msg.device) /\ IntegerValue(step.msg.device) > 3) =>
              driverCalls = <<>>

\* a message with both fields for channel 4 moved nothing on an enabled robot
C16_Witness ==
  /\ step.kind = "text" /\ Typed(step.msg, "PWM")
  /\ step.msg.data.speed # Absent /\ step.msg.data.position # Absent
  /\ IsIntegerText(step.msg.device) /\ IntegerValue(step.msg.device) = 4
  /\ step.wasEnabled /\ ~crashed
  /\ driverCalls = <<>> /\ pwmValues[4] = 0

C19_OnlyDriverStationTouchesSafety ==
  [][(step'.kind \in {"text", "text2"} /\ step'.msg.hasType
        /\ step'.msg.type # "DriverStation") =>
       /\ wdAge' = wdAge
       /\ robotEnabled' = robotEnabled
       /\ step'.msg.type \in {"DIO", "Gyro"} =>
            (driverCalls' = <<>> /\ ProgramStateUnchanged)]_vars

\* a Gyro message reached an enabled robot whose heartbeat had expired and
\* left the heartbeat expired
C19_Witness ==
  /\ step.kind = "text" /\ Typed(step.msg, "Gyro")
  /\ step.wasEnabled /\ robotEnabled
  /\ ~step.wasActive /\ ~dsWatchdogActive(Sys)
  /\ driverCalls = <<>>

\* C20: a loop iteration that finds no client leaves the queue empty, and the
\* queue stays empty until an iteration finds a client again, so nothing that
\* was sampled before a client connected to the deserted robot is waiting for
\* it or is sent to it.
C20_NoClientMeansEmptyQueue ==
  /\ (LoopRan /\ clients = {}) => outboundMessages = <<>>
  /\ lastCheckedNumClients = 0 => outboundMessages = <<>>
  /\ \A b \in Range(broadcasts) : b \notin staleAtDisconnect

\* a client connects to a robot that had been left without one while reports
\* were queued: the reports are gone
C20_Witness ==
  /\ step.kind = "connected" /\ clients # {}
  /\ lastCheckedNumClients = 0
  /\ staleAtDisconnect # {}
  /\ outboundMessages = <<>>

====
